---- MODULE Spec2Model ----
(***************************************************************************)
(* Model of the two command-line tools of macOS-RoutingDNS:                *)
(*   mrvdns.py  reverse-DNS lookup tool (enumerator, thread pool, output)  *)
(*   mroute.py  network configuration manager (external commands)          *)
(*                                                                         *)
(* IPv4 addresses are modelled as the integers 0 .. 2^AddrBits - 1 (the    *)
(* numeric value of the dotted quad; the real width is 32).  A text that   *)
(* ipaddress rejects is the out-of-range value BadAddr / BadPfx.           *)
(*                                                                         *)
(* Specifications:                                                         *)
(*   Spec, FairSpec  one run of mrvdns.main, thread by thread              *)
(*   SpecFile        read_ips_and_ranges_from_file over every small file   *)
(*   SpecLookup      reverse_dns_lookup over every small resolver reply    *)
(*   SpecRoute       one run of mroute.main, command by command            *)
(***************************************************************************)
EXTENDS Integers, Sequences, FiniteSets, TLC

\* ------------------------------------------------------------------ bounds
\* width of an address in bits (32 in IPv4)
AddrBits == 2
\* host bits of the network generate_sequential_ips builds (8 in "/24")
SubnetHostBits == 2
MaxLines == 2
MaxIps == 3
MaxWorkers == 2
MaxReplyLines == 2
MaxLineTokens == 2
MaxRoutes == 2

None == "None"

RECURSIVE Pow2(_)
Pow2(n) == IF n <= 0 THEN 1 ELSE 2 * Pow2(n - 1)

Addr == 0 .. (Pow2(AddrBits) - 1)

\* an address text, a prefix text that ipaddress rejects with ValueError
BadAddr == Pow2(AddrBits)
BadPfx == AddrBits + 1

\* the sequence lo, lo+1, ..., hi (empty when hi < lo): range(lo, hi + 1)
Range(lo, hi) == [i \in 1 .. (IF hi < lo THEN 0 ELSE hi - lo + 1) |-> lo + i - 1]

\* ------------------------------------------------- ipaddress.IPv4Network
\* IPv4Network(text, strict=False): the address part and the prefix part must
\* both be valid, otherwise ValueError.
ValidNetwork(a, p) == a \in Addr /\ p \in 0 .. AddrBits

BlockSize(p) == Pow2(AddrBits - p)
\* strict=False: host bits of the address are masked off
NetworkAddress(a, p) == a - (a % BlockSize(p))
BroadcastAddress(a, p) == NetworkAddress(a, p) + BlockSize(p) - 1

\* IPv4Network.hosts(): network and broadcast excluded, except that a prefix
\* one short of the full width yields both addresses and a full-width prefix
\* yields the single address.
hosts(a, p) ==
    IF p = AddrBits THEN <<a>>
    ELSE IF p = AddrBits - 1
         THEN Range(NetworkAddress(a, p), BroadcastAddress(a, p))
         ELSE Range(NetworkAddress(a, p) + 1, BroadcastAddress(a, p) - 1)

\* A call that may raise ValueError: [ok |-> TRUE, ips |-> ...] or the raise.
Raised == [ok |-> FALSE, ips |-> <<>>]
Returned(s) == [ok |-> TRUE, ips |-> s]

\* mrvdns.expand_cidr_range
expand_cidr_range(a, p) ==
    IF ValidNetwork(a, p) THEN Returned(hosts(a, p)) ELSE Raised

\* mrvdns.generate_sequential_ips: IPv4Network(f"{subnet}.0/24").  The subnet
\* prefix names the block whose host part is SubnetHostBits wide.
Subnets == 0 .. (Pow2(AddrBits - SubnetHostBits) - 1)
generate_sequential_ips(subnet) ==
    IF subnet \in Subnets
    THEN Returned(hosts(subnet * Pow2(SubnetHostBits), AddrBits - SubnetHostBits))
    ELSE Raised

\* ------------------------------------------------------------ file lines
\* A line of the input file after strip(): blank, or an entry with an address
\* part and, when it holds a '/', a prefix part.
\* (the fields a line does not have are 0)
BlankLine == [blank |-> TRUE, slash |-> FALSE, addr |-> 0, pfx |-> 0]
AddrLine(a) == [blank |-> FALSE, slash |-> FALSE, addr |-> a, pfx |-> 0]
CidrLine(a, p) == [blank |-> FALSE, slash |-> TRUE, addr |-> a, pfx |-> p]

AddrTexts == Addr \cup {BadAddr}
PfxTexts == (0 .. AddrBits) \cup {BadPfx}
\* the address parts of the CIDR entries: the first address, one with host
\* bits set under every prefix but the full one, the last address, a bad one
CidrAddrTexts == {0, 1, Pow2(AddrBits) - 1, BadAddr}
Lines ==
    {BlankLine} \cup {AddrLine(a) : a \in AddrTexts}
       \cup {CidrLine(a, p) : a \in CidrAddrTexts, p \in PfxTexts}

SeqsUpTo(S, n) == UNION {[1 .. k -> S] : k \in 0 .. n}

\* One iteration of the loop of read_ips_and_ranges_from_file over `line`:
\* what is appended to all_ips, and whether the entry is reported invalid.
\* (a scan without the '/' test: every entry is validated as one address)
ScanLineNoCidr(line) ==
    IF line.blank THEN [ips |-> <<>>, invalid |-> FALSE]
    ELSE IF ~line.slash /\ line.addr \in Addr
         THEN [ips |-> <<line.addr>>, invalid |-> FALSE]
         ELSE [ips |-> <<>>, invalid |-> TRUE]

ScanLine(line) ==
    IF line.blank THEN [ips |-> <<>>, invalid |-> FALSE]
    ELSE IF line.slash
         THEN LET r == expand_cidr_range(line.addr, line.pfx)
              IN  [ips |-> r.ips, invalid |-> ~r.ok]
         ELSE IF line.addr \in Addr
              THEN [ips |-> <<line.addr>>, invalid |-> FALSE]
              ELSE [ips |-> <<>>, invalid |-> TRUE]

\* mrvdns.read_ips_and_ranges_from_file, as the function of the whole file
RECURSIVE read_ips_and_ranges_from_file(_)
read_ips_and_ranges_from_file(lines) ==
    IF lines = <<>> THEN <<>>
    ELSE ScanLine(Head(lines)).ips \o read_ips_and_ranges_from_file(Tail(lines))

\* ------------------------------------------------------ reverse_dns_lookup
\* The text nslookup prints is a sequence of lines (splitlines), a line a
\* sequence of tokens: the marker "name =", a host name, a space.
NameEq == "name ="
Space == " "
HostName == "ptr.example."
Tokens == {NameEq, HostName, Space}
ReplyLines == SeqsUpTo(Tokens, MaxLineTokens)

\* what subprocess.run(["nslookup", ip, dns_server], timeout=5) does
Completed(out) == [kind |-> "completed", stdout |-> out, desc |-> ""]
TimeoutExpired == [kind |-> "timeout", stdout |-> <<>>, desc |-> ""]
OtherException(d) == [kind |-> "exception", stdout |-> <<>>, desc |-> d]
ExceptionTexts == {"[Errno 2] No such file or directory: 'nslookup'"}
Behaviours ==
    {Completed(out) : out \in SeqsUpTo(ReplyLines, MaxReplyLines)}
       \cup {TimeoutExpired} \cup {OtherException(d) : d \in ExceptionTexts}

\* "name =" in line
HasMarker(line) == \E i \in 1 .. Len(line) : line[i] = NameEq

\* line.split("name =")[-1]: what follows the last marker
AfterLastMarker(line) ==
    LET last == CHOOSE i \in 1 .. Len(line) :
                  line[i] = NameEq /\ \A j \in (i + 1) .. Len(line) : line[j] # NameEq
    IN  SubSeq(line, last + 1, Len(line))

\* str.strip()
RECURSIVE LStrip(_)
LStrip(t) == IF t # <<>> /\ Head(t) = Space THEN LStrip(Tail(t)) ELSE t
RECURSIVE RStrip(_)
RStrip(t) ==
    IF t # <<>> /\ t[Len(t)] = Space THEN RStrip(SubSeq(t, 1, Len(t) - 1)) ELSE t
Strip(t) == RStrip(LStrip(t))

\* the result line f"{ip}\t{text}"
ResultLine(ip, text) == [ip |-> ip, text |-> text]
NoPtrText == <<"No PTR Record Found">>
TimeoutText == <<"Timeout">>
ErrorText(d) == <<"Error: ", d>>

\* the `for line in output.splitlines()` loop: the first line with the marker
RECURSIVE ScanReply(_, _)
ScanReply(ip, out) ==
    IF out = <<>> THEN ResultLine(ip, NoPtrText)
    ELSE IF HasMarker(Head(out))
         THEN ResultLine(ip, Strip(AfterLastMarker(Head(out))))
         ELSE ScanReply(ip, Tail(out))

\* (a lookup whose handlers are in the other order: Exception before
\* TimeoutExpired, which then never runs)
reverse_dns_lookup_broad_except_first(ip, run) ==
    IF run.kind = "completed" THEN ScanReply(ip, run.stdout)
    ELSE IF run.kind = "timeout" THEN ResultLine(ip, ErrorText("timed out"))
    ELSE ResultLine(ip, ErrorText(run.desc))

\* mrvdns.reverse_dns_lookup(ip, dns_server), `run` being what the resolver
\* command does
reverse_dns_lookup(ip, run) ==
    IF run.kind = "completed" THEN ScanReply(ip, run.stdout)
    ELSE IF run.kind = "timeout" THEN ResultLine(ip, TimeoutText)
    ELSE ResultLine(ip, ErrorText(run.desc))

\* ---------------------------------------------------------------- state
VARIABLES
    \* read_ips_and_ranges_from_file run line by line
    fileLines, filePos, all_ips, reported, fpc,
    \* one call of reverse_dns_lookup
    lkIp, lkRun, lkResult, lkpc,
    \* mrvdns.main: the parsed arguments, the position of the main thread,
    \* the enumerated addresses
    args, pc, ip_list,
    \* the ThreadPoolExecutor: work items submitted, work items taken by a
    \* worker, the items being looked up, the worker threads, the executor's
    \* idle semaphore, each future's result
    submitted, started, running, numThreads, idleSem, future,
    \* the `for future in futures` loop, what it printed and collected, and
    \* the output file
    mainIdx, console, results, outFile,
    \* history: reverse_dns_lookup calls per work item, what the resolver did
    \* for each, and the order in which the calls returned
    attempts, runOf, completionOrder,
    \* mroute.main: the parsed arguments, the parsed configuration file and
    \* whether it exists, the position in main, the listed services, the
    \* chosen interface, the position in the routes loop, the external
    \* commands run so far with how each ended, the exit status, the backup
    \* file
    rArgs, config, configExists, rpc, services, interface, routeIdx,
    cmdLog, exitStatus, backupFile

fileVars == <<fileLines, filePos, all_ips, reported, fpc>>
lookupVars == <<lkIp, lkRun, lkResult, lkpc>>
poolVars == <<submitted, started, running, numThreads, idleSem, future>>
mainVars == <<args, pc, ip_list, mainIdx, console, results, outFile>>
histVars == <<attempts, runOf, completionOrder>>
pipeVars == <<mainVars, poolVars, histVars>>
routeVars ==
    <<rArgs, config, configExists, rpc, services, interface, routeIdx,
      cmdLog, exitStatus, backupFile>>
vars == <<fileVars, lookupVars, pipeVars, routeVars>>

\* a result not yet produced
Unset == ResultLine(BadAddr, <<>>)

\* the parts of the state a specification does not use stay as they are here
FileIdle ==
    fileLines = <<>> /\ filePos = 1 /\ all_ips = <<>> /\ reported = <<>> /\ fpc = "idle"
LookupIdle ==
    lkIp = 0 /\ lkRun = TimeoutExpired /\ lkResult = Unset /\ lkpc = "idle"

NotRun == [kind |-> "none", stdout |-> <<>>, desc |-> ""]
NoFile == [written |-> FALSE, header |-> "", rows |-> <<>>]
NoArgs == [subnet |-> <<>>, cidr |-> <<>>, file |-> <<>>, threads |-> 0, output |-> FALSE]
PipeIdle ==
    /\ args = NoArgs /\ pc = "idle" /\ ip_list = <<>>
    /\ submitted = 0 /\ started = 0 /\ running = {} /\ numThreads = 0 /\ idleSem = 0
    /\ future = <<>>
    /\ mainIdx = 1 /\ console = <<>> /\ results = <<>> /\ outFile = NoFile
    /\ attempts = <<>> /\ runOf = <<>> /\ completionOrder = <<>>

NoRouteArgs == [r |-> FALSE, s |-> FALSE, b |-> FALSE, i |-> FALSE, p |-> <<>>]
NoConfig == [dns |-> <<>>, domains |-> <<>>, routes |-> <<>>, gateway |-> ""]
RouteIdle ==
    /\ rArgs = NoRouteArgs /\ config = NoConfig /\ configExists = FALSE
    /\ rpc = "idle" /\ services = <<>> /\ interface = "" /\ routeIdx = 1
    /\ cmdLog = <<>> /\ exitStatus = 0 /\ backupFile = <<>>

\* ------------------------------------- read_ips_and_ranges_from_file steps
FileInit ==
    /\ fileLines \in SeqsUpTo(Lines, MaxLines)
    /\ filePos = 1
    /\ all_ips = <<>>
    /\ reported = <<>>
    /\ fpc = "scan"
    /\ LookupIdle
    /\ PipeIdle
    /\ RouteIdle

\* one iteration of `for line in file`
ReadLine ==
    /\ fpc = "scan"
    /\ filePos <= Len(fileLines)
    /\ LET r == ScanLine(fileLines[filePos])
       IN  /\ all_ips' = all_ips \o r.ips
           /\ reported' = IF r.invalid THEN Append(reported, filePos) ELSE reported
    /\ filePos' = filePos + 1
    /\ UNCHANGED <<fileLines, fpc, lookupVars, pipeVars, routeVars>>

\* `return all_ips` after the last line
ReturnIps ==
    /\ fpc = "scan"
    /\ filePos > Len(fileLines)
    /\ fpc' = "returned"
    /\ UNCHANGED <<fileLines, filePos, all_ips, reported, lookupVars, pipeVars, routeVars>>

FileNext == ReadLine \/ ReturnIps

SpecFile == FileInit /\ [][FileNext]_vars

\* ------------------------------------------------------------ C9 (file mode)
\* the elements of a set of numbers in ascending order
RECURSIVE Ascending(_)
Ascending(S) ==
    IF S = {} THEN <<>>
    ELSE LET m == CHOOSE x \in S : \A y \in S : x <= y
         IN  <<m>> \o Ascending(S \ {m})

IsValidAddressLine(line) == ~line.blank /\ ~line.slash /\ line.addr \in Addr
IsValidCidrLine(line) ==
    ~line.blank /\ line.slash /\ line.addr \in Addr /\ line.pfx \in 0 .. AddrBits
IsInvalidLine(line) ==
    ~line.blank /\ ~IsValidAddressLine(line) /\ ~IsValidCidrLine(line)

\* the addresses of the block a/p
Block(a, p) == {x \in Addr : x \div BlockSize(p) = a \div BlockSize(p)}
Least(S) == CHOOSE x \in S : \A y \in S : x <= y
Greatest(S) == CHOOSE x \in S : \A y \in S : x >= y

\* "usable host address: any address in a block excluding the network and
\* broadcast addresses"
GlossaryUsableHosts(a, p) ==
    Ascending(Block(a, p) \ {Least(Block(a, p)), Greatest(Block(a, p))})

\* the same, except that a block of two addresses contributes both and a
\* block of one address contributes it
UsableHostsWithShortBlocks(a, p) ==
    IF Cardinality(Block(a, p)) <= 2 THEN Ascending(Block(a, p))
    ELSE GlossaryUsableHosts(a, p)

GlossaryContribution(line) ==
    IF IsValidAddressLine(line) THEN <<line.addr>>
    ELSE IF IsValidCidrLine(line) THEN GlossaryUsableHosts(line.addr, line.pfx)
    ELSE <<>>

AmendedContribution(line) ==
    IF IsValidAddressLine(line) THEN <<line.addr>>
    ELSE IF IsValidCidrLine(line) THEN UsableHostsWithShortBlocks(line.addr, line.pfx)
    ELSE <<>>

RECURSIVE GlossaryExpected(_)
GlossaryExpected(lines) ==
    IF lines = <<>> THEN <<>>
    ELSE GlossaryContribution(Head(lines)) \o GlossaryExpected(Tail(lines))

RECURSIVE AmendedExpected(_)
AmendedExpected(lines) ==
    IF lines = <<>> THEN <<>>
    ELSE AmendedContribution(Head(lines)) \o AmendedExpected(Tail(lines))

ScannedLines == SubSeq(fileLines, 1, filePos - 1)
InvalidScanned == Ascending({i \in 1 .. (filePos - 1) : IsInvalidLine(fileLines[i])})

\* C9 as stated: the scan never stops before the last line, reports exactly
\* the invalid lines, and the list is the concatenation in line order of the
\* lines' contributions, a CIDR line contributing its block minus the network
\* and broadcast addresses.
C9_AsStated ==
    /\ fpc = "scan" => ENABLED FileNext
    /\ fpc = "returned" => filePos = Len(fileLines) + 1
    /\ reported = InvalidScanned
    /\ all_ips = GlossaryExpected(ScannedLines)

\* C9 amended: as C9, but a CIDR line whose block has two addresses
\* contributes both of them and one whose block has one address contributes
\* that address (only larger blocks lose their network and broadcast address).
C9_FileScan ==
    /\ fpc = "scan" => ENABLED FileNext
    /\ fpc = "returned" => filePos = Len(fileLines) + 1
    /\ reported = InvalidScanned
    /\ all_ips = AmendedExpected(ScannedLines)

\* an invalid first line was reported and skipped, and the two-address block
\* on the second line still contributed its addresses
C9_Witness ==
    /\ fpc = "returned"
    /\ Len(fileLines) = 2
    /\ reported = <<1>>
    /\ IsValidCidrLine(fileLines[2]) /\ fileLines[2].pfx = AddrBits - 1
    /\ Len(all_ips) = 2

\* ------------------------------------------- one reverse_dns_lookup call
LookupIps == {0, Pow2(AddrBits) - 1}

LookupInit ==
    /\ lkIp \in LookupIps
    /\ lkRun \in Behaviours
    /\ lkResult = Unset
    /\ lkpc = "call"
    /\ FileIdle
    /\ PipeIdle
    /\ RouteIdle

Lookup ==
    /\ lkpc = "call"
    /\ lkResult' = reverse_dns_lookup(lkIp, lkRun)
    /\ lkpc' = "returned"
    /\ UNCHANGED <<lkIp, lkRun, fileVars, pipeVars, routeVars>>

LookupNext == Lookup

SpecLookup == LookupInit /\ [][LookupNext]_vars

\* ------------------------------------------------------- C7 (classification)
\* the outcome a result line reports
OutcomeKind(r) ==
    IF r.text = NoPtrText THEN "NoRecord"
    ELSE IF r.text = TimeoutText THEN "Timeout"
    ELSE IF r.text # <<>> /\ r.text[1] = "Error: " THEN "Error"
    ELSE "Resolved"

MarkerLines(out) == {k \in 1 .. Len(out) : \E i \in 1 .. Len(out[k]) : out[k][i] = NameEq}

\* n is the name line `l` gives: what follows the marker, without the spaces
\* around it
IsNameOf(n, l) ==
    \E i \in 1 .. Len(l), a \in 0 .. Len(l), b \in 0 .. Len(l) :
        /\ l[i] = NameEq
        /\ \A j \in (i + 1) .. Len(l) : l[j] # NameEq
        /\ i + a + Len(n) + b = Len(l)
        /\ \A j \in 1 .. a : l[i + j] = Space
        /\ \A j \in 1 .. Len(n) : l[i + a + j] = n[j]
        /\ \A j \in 1 .. b : l[i + a + Len(n) + j] = Space
        /\ n # <<>> => (n[1] # Space /\ n[Len(n)] # Space)

\* C7: a lookup yields exactly one of Resolved(name) (the reply has a line
\* with a PTR name; the name is that of the first such line), NoRecord (the
\* query completed without such a line), Timeout (the query timed out) and
\* Error(description) (any other failure), paired with the queried address.
C7_Classification ==
    lkpc = "returned" =>
        /\ lkResult.ip = lkIp
        /\ OutcomeKind(lkResult) \in {"Resolved", "NoRecord", "Timeout", "Error"}
        /\ (OutcomeKind(lkResult) = "Resolved") <=>
              (lkRun.kind = "completed" /\ MarkerLines(lkRun.stdout) # {})
        /\ (OutcomeKind(lkResult) = "Resolved") =>
              IsNameOf(lkResult.text, lkRun.stdout[Least(MarkerLines(lkRun.stdout))])
        /\ (OutcomeKind(lkResult) = "NoRecord") <=>
              (lkRun.kind = "completed" /\ MarkerLines(lkRun.stdout) = {})
        /\ (OutcomeKind(lkResult) = "Timeout") <=> (lkRun.kind = "timeout")
        /\ (OutcomeKind(lkResult) = "Error") <=> (lkRun.kind = "exception")
        /\ (OutcomeKind(lkResult) = "Error") => lkResult.text = <<"Error: ", lkRun.desc>>

\* a reply with two PTR name lines giving different names was resolved
C7_Witness ==
    /\ lkpc = "returned"
    /\ lkRun.kind = "completed"
    /\ Cardinality(MarkerLines(lkRun.stdout)) = 2
    /\ lkResult.text = <<HostName>>
    /\ ~IsNameOf(lkResult.text, lkRun.stdout[2])

\* ============================================================ mrvdns.main
\* The arguments a run is given.  An option that was not given is <<>>, one
\* that was given is <<value>>.
BadSubnet == Pow2(AddrBits - SubnetHostBits)
SubnetArgs == {<<>>, <<0>>, <<BadSubnet>>}
CidrArgs == {<<>>, <<<<0, AddrBits>>>>, <<<<0, BadPfx>>>>}
FileArgs ==
    {<<>>, <<<<>>>>, << <<AddrLine(BadAddr), BlankLine>> >>,
     << <<AddrLine(1), AddrLine(1)>> >>,
     << <<AddrLine(1), CidrLine(0, AddrBits - 1)>> >>}
ArgSets ==
    [subnet : SubnetArgs, cidr : CidrArgs, file : FileArgs,
     threads : 0 .. MaxWorkers, output : BOOLEAN]

\* what the resolver does for one lookup of a run
PoolBehaviours ==
    {Completed(<< <<NameEq, HostName>> >>), Completed(<<>>), TimeoutExpired}
       \cup {OtherException(d) : d \in ExceptionTexts}

\* lines 69-78: the three sources in the order subnet, CIDR, file; a
\* ValueError of the first two is not caught
Enumerate(a) ==
    LET s == IF a.subnet = <<>> THEN Returned(<<>>)
             ELSE generate_sequential_ips(a.subnet[1])
        c == IF a.cidr = <<>> THEN Returned(<<>>)
             ELSE expand_cidr_range(a.cidr[1][1], a.cidr[1][2])
        f == IF a.file = <<>> THEN <<>> ELSE read_ips_and_ranges_from_file(a.file[1])
    IN  IF ~s.ok THEN Raised
        ELSE IF ~c.ok THEN [ok |-> FALSE, ips |-> s.ips]
        ELSE Returned(s.ips \o c.ips \o f)

N == Len(ip_list)
HeaderLine == "IP Address\tReverse DNS Name"

Init ==
    /\ args \in {a \in ArgSets : Len(Enumerate(a).ips) <= MaxIps}
    /\ pc = "collect_ips"
    /\ ip_list = <<>>
    /\ submitted = 0 /\ started = 0 /\ running = {} /\ numThreads = 0 /\ idleSem = 0
    /\ future = <<>>
    /\ mainIdx = 1 /\ console = <<>> /\ results = <<>> /\ outFile = NoFile
    /\ attempts = <<>> /\ runOf = <<>> /\ completionOrder = <<>>
    /\ FileIdle
    /\ LookupIdle
    /\ RouteIdle

\* (a main without the `if not ip_list: return` test)
CollectIpsNoEmptyTest ==
    /\ pc = "collect_ips"
    /\ LET e == Enumerate(args)
       IN  /\ ip_list' = e.ips
           /\ pc' = IF ~e.ok THEN "crashed" ELSE "pool"
    /\ UNCHANGED <<args, mainIdx, console, results, outFile, poolVars, histVars,
                   fileVars, lookupVars, routeVars>>

\* lines 68-82: collect all IPs; return when there are none
CollectIps ==
    /\ pc = "collect_ips"
    /\ LET e == Enumerate(args)
       IN  /\ ip_list' = e.ips
           /\ pc' = IF ~e.ok THEN "crashed"
                    ELSE IF e.ips = <<>> THEN "done"
                    ELSE "pool"
    /\ UNCHANGED <<args, mainIdx, console, results, outFile, poolVars, histVars,
                   fileVars, lookupVars, routeVars>>

\* lines 86-87: results = []; ThreadPoolExecutor(max_workers=args.threads),
\* which raises ValueError unless max_workers > 0
StartPool ==
    /\ pc = "pool"
    /\ pc' = IF args.threads <= 0 THEN "crashed" ELSE "submit"
    /\ future' = [i \in 1 .. N |-> Unset]
    /\ attempts' = [i \in 1 .. N |-> 0]
    /\ runOf' = [i \in 1 .. N |-> NotRun]
    /\ UNCHANGED <<args, ip_list, mainIdx, console, results, outFile,
                   submitted, started, running, numThreads, idleSem,
                   completionOrder, fileVars, lookupVars, routeVars>>

\* (a submit that starts a thread for every work item)
SubmitThreadPerItem ==
    /\ pc = "submit"
    /\ submitted < N
    /\ submitted' = submitted + 1
    /\ numThreads' = numThreads + 1
    /\ pc' = IF submitted' = N THEN "await" ELSE "submit"
    /\ UNCHANGED <<args, ip_list, mainIdx, console, results, outFile,
                   started, running, idleSem, future, histVars,
                   fileVars, lookupVars, routeVars>>

\* line 88: executor.submit(reverse_dns_lookup, ip, args.dns) for the next
\* address: the work item is queued; when the idle semaphore can be taken no
\* thread is started, otherwise one is started if fewer than max_workers
\* exist.  After the last one the list of futures is complete and the loop
\* of line 89 begins.
Submit ==
    /\ pc = "submit"
    /\ submitted < N
    /\ submitted' = submitted + 1
    /\ IF idleSem > 0
       THEN idleSem' = idleSem - 1 /\ numThreads' = numThreads
       ELSE /\ idleSem' = idleSem
            /\ numThreads' = IF numThreads < args.threads
                             THEN numThreads + 1 ELSE numThreads
    /\ pc' = IF submitted' = N THEN "await" ELSE "submit"
    /\ UNCHANGED <<args, ip_list, mainIdx, console, results, outFile,
                   started, running, future, histVars, fileVars, lookupVars, routeVars>>

\* a worker thread without work takes the oldest queued item and calls
\* reverse_dns_lookup for it
WorkerStart ==
    /\ started < submitted
    /\ Cardinality(running) < numThreads
    /\ started' = started + 1
    /\ running' = running \cup {started + 1}
    /\ attempts' = [attempts EXCEPT ![started + 1] = @ + 1]
    /\ UNCHANGED <<mainVars, submitted, numThreads, idleSem, future, runOf,
                   completionOrder,
                   fileVars, lookupVars, routeVars>>

\* (a worker that calls the lookup again when it timed out)
WorkerFinishRetryTimeout ==
    \E i \in running, run \in PoolBehaviours :
        IF run.kind = "timeout" /\ attempts[i] < 2
        THEN /\ attempts' = [attempts EXCEPT ![i] = @ + 1]
             /\ UNCHANGED <<mainVars, poolVars, runOf, completionOrder,
                            fileVars, lookupVars, routeVars>>
        ELSE /\ future' = [future EXCEPT ![i] = reverse_dns_lookup(ip_list[i], run)]
             /\ runOf' = [runOf EXCEPT ![i] = run]
             /\ running' = running \ {i}
             /\ completionOrder' = Append(completionOrder, i)
             /\ idleSem' = idleSem + 1
             /\ UNCHANGED <<mainVars, submitted, started, numThreads, attempts,
                            fileVars, lookupVars, routeVars>>

\* (a worker whose failed lookup raises, which ends the run)
WorkerFinishRaises ==
    \E i \in running, run \in PoolBehaviours :
        /\ future' = [future EXCEPT ![i] = reverse_dns_lookup(ip_list[i], run)]
        /\ runOf' = [runOf EXCEPT ![i] = run]
        /\ running' = running \ {i}
        /\ completionOrder' = Append(completionOrder, i)
        /\ idleSem' = idleSem + 1
        /\ pc' = IF run.kind = "completed" THEN pc ELSE "crashed"
        /\ UNCHANGED <<args, ip_list, mainIdx, console, results, outFile,
                       submitted, started, numThreads, attempts, fileVars, lookupVars, routeVars>>

\* reverse_dns_lookup returns in a worker: the future gets its result and
\* the worker releases the idle semaphore
WorkerFinish ==
    \E i \in running, run \in PoolBehaviours :
        /\ future' = [future EXCEPT ![i] = reverse_dns_lookup(ip_list[i], run)]
        /\ runOf' = [runOf EXCEPT ![i] = run]
        /\ running' = running \ {i}
        /\ completionOrder' = Append(completionOrder, i)
        /\ idleSem' = idleSem + 1
        /\ UNCHANGED <<mainVars, submitted, started, numThreads, attempts,
                       fileVars, lookupVars, routeVars>>

\* future.result() of line 90 returns once the future has its result
FutureDone(i) == future[i] # Unset

\* (a loop over the futures in the order they complete, as_completed)
AwaitResultAsCompleted ==
    /\ pc = "await"
    /\ mainIdx <= N
    /\ mainIdx <= Len(completionOrder)
    /\ console' = Append(console, future[completionOrder[mainIdx]])
    /\ results' = Append(results, future[completionOrder[mainIdx]])
    /\ mainIdx' = mainIdx + 1
    /\ UNCHANGED <<args, pc, ip_list, outFile, poolVars, histVars, fileVars, lookupVars, routeVars>>

\* (a loop that takes a future's result only if it is already there)
AwaitResultIfDone ==
    /\ pc = "await"
    /\ mainIdx <= N
    /\ IF FutureDone(mainIdx)
       THEN /\ console' = Append(console, future[mainIdx])
            /\ results' = Append(results, future[mainIdx])
       ELSE UNCHANGED <<console, results>>
    /\ mainIdx' = mainIdx + 1
    /\ UNCHANGED <<args, pc, ip_list, outFile, poolVars, histVars, fileVars, lookupVars, routeVars>>

\* lines 89-92: one iteration of `for future in futures`: wait for this
\* future's result, print it, append it
AwaitResult ==
    /\ pc = "await"
    /\ mainIdx <= N
    /\ FutureDone(mainIdx)
    /\ console' = Append(console, future[mainIdx])
    /\ results' = Append(results, future[mainIdx])
    /\ mainIdx' = mainIdx + 1
    /\ UNCHANGED <<args, pc, ip_list, outFile, poolVars, histVars, fileVars, lookupVars, routeVars>>

\* the end of the `with` block: executor.shutdown(wait=True) joins the
\* workers; then line 95
JoinPool ==
    /\ pc = "await"
    /\ mainIdx > N
    /\ running = {} /\ started = submitted
    /\ pc' = IF args.output THEN "write" ELSE "done"
    /\ UNCHANGED <<args, ip_list, mainIdx, console, results, outFile,
                   poolVars, histVars, fileVars, lookupVars, routeVars>>

\* lines 95-99: the header, then the results joined by newlines
WriteOutput ==
    /\ pc = "write"
    /\ outFile' = [written |-> TRUE, header |-> HeaderLine, rows |-> results]
    /\ pc' = "done"
    /\ UNCHANGED <<args, ip_list, mainIdx, console, results,
                   poolVars, histVars, fileVars, lookupVars, routeVars>>

Next ==
    \/ CollectIps
    \/ StartPool
    \/ Submit
    \/ WorkerStart
    \/ WorkerFinish
    \/ AwaitResult
    \/ JoinPool
    \/ WriteOutput

Spec == Init /\ [][Next]_vars

\* the threads are scheduled and every resolver call ends (timeout=5)
FairSpec == Spec /\ WF_vars(Next)

\* ------------------------------------------------------------ C1 (pool bound)
\* C1: with K >= 1 workers, at most K reverse_dns_lookup calls have started
\* and not yet returned, in every state of every interleaving.
C1_AtMostKInFlight ==
    args.threads >= 1 => Cardinality(running) <= args.threads

\* K lookups are in flight while another submitted one waits in the queue
C1_Witness ==
    /\ args.threads >= 1
    /\ N > args.threads
    /\ Cardinality(running) = args.threads
    /\ started < submitted

\* ---------------------------------------------------------- C2 (exactly once)
PoolJoined == pc \in {"write", "done"} /\ N > 0

\* C2: every occurrence of an address is looked up at most once at any time
\* (no retry), every collected result is that of its own occurrence, and
\* after the pool join there are exactly N results, one per occurrence, each
\* looked up exactly once.
C2_ExactlyOnce ==
    /\ \A i \in 1 .. Len(attempts) : attempts[i] <= 1
    /\ Len(results) <= N
    /\ \A k \in 1 .. Len(results) : results[k].ip = ip_list[k]
    /\ PoolJoined =>
          /\ Len(results) = N
          /\ \A i \in 1 .. N : attempts[i] = 1 /\ results[i] = future[i]

\* a joined run over a list with a duplicate, with a timeout and an error
C2_Witness ==
    /\ PoolJoined
    /\ N = 3
    /\ ip_list[1] = ip_list[3]
    /\ \E i, j \in 1 .. N : runOf[i].kind = "timeout" /\ runOf[j].kind = "exception"

\* ------------------------------------------------------- C3 (write after join)
AllLookupsCollected ==
    /\ running = {}
    /\ submitted = N /\ started = N
    /\ \A i \in 1 .. N : FutureDone(i)
    /\ Len(results) = N

\* C3: the file-write step begins only when no lookup is pending or in
\* flight and every result is collected, and the file holds the header and
\* one row per enumerated address.
C3_WriteAfterJoin ==
    /\ (pc = "write" \/ outFile.written) => AllLookupsCollected
    /\ outFile.written =>
          /\ outFile.header = HeaderLine
          /\ Len(outFile.rows) = N
          /\ \A i \in 1 .. N : outFile.rows[i].ip = ip_list[i]

\* a file was written after lookups that completed out of submission order
C3_Witness ==
    /\ outFile.written
    /\ N >= 2
    /\ completionOrder[1] # 1

\* ------------------------------------------------------------- C4 (streaming)
\* the main thread is blocked in future.result() on a lookup that has not
\* completed while lookup i has completed and is not printed
WaitsBehindPending(i) ==
    /\ pc = "await"
    /\ mainIdx <= N
    /\ ~FutureDone(mainIdx)
    /\ i # mainIdx
    /\ FutureDone(i)
    /\ \A k \in 1 .. Len(console) : k # i

\* C4 as stated: the printing of a completed lookup's result never waits for
\* a different lookup that has not completed.
C4_AsStated == \A i \in 1 .. N : ~(Len(future) = N /\ WaitsBehindPending(i))

\* C4 amended: results are printed in submission order.  What is printed is
\* always the results of the first lookups submitted, in that order; the
\* next one is printed as soon as it has completed; a completed result that
\* waits, waits only for a lookup submitted before it.
C4_PrintedInSubmissionOrder ==
    /\ console = [k \in 1 .. (mainIdx - 1) |-> future[k]]
    /\ (pc = "await" /\ mainIdx <= N /\ FutureDone(mainIdx)) => ENABLED AwaitResult
    /\ \A i \in 1 .. N : (Len(future) = N /\ WaitsBehindPending(i)) => mainIdx < i

\* the last lookup submitted has completed and waits for the first one
C4_Witness ==
    /\ N >= 2
    /\ Len(future) = N
    /\ WaitsBehindPending(N)
    /\ mainIdx = 1

\* ------------------------------------------------------------- C5 (row order)
\* C5 as stated: the rows of the output file are the results in the order in
\* which the lookups completed.
C5_AsStated ==
    outFile.written =>
        outFile.rows = [k \in 1 .. N |-> future[completionOrder[k]]]

\* C5 amended: the rows of the output file are the results in the order in
\* which the addresses were enumerated and submitted, whatever the order in
\* which the lookups completed.
C5_RowsInSubmissionOrder ==
    outFile.written =>
        /\ outFile.rows = [k \in 1 .. N |-> future[k]]
        /\ \A k \in 1 .. N : outFile.rows[k].ip = ip_list[k]

\* a file whose rows are not in completion order
C5_Witness ==
    /\ outFile.written
    /\ outFile.rows # [k \in 1 .. N |-> future[completionOrder[k]]]

\* ---------------------------------------------------- C6 (failures recorded)
\* the text a resolver behaviour is recorded as, when it is a failure
IsFailure(run) ==
    \/ run.kind \in {"timeout", "exception"}
    \/ run.kind = "completed" /\ MarkerLines(run.stdout) = {}
FailureText(run) ==
    IF run.kind = "timeout" THEN <<"Timeout">>
    ELSE IF run.kind = "exception" THEN <<"Error: ", run.desc>>
    ELSE <<"No PTR Record Found">>

FailuresAreResults ==
    /\ pc = "crashed" => started = 0
    /\ \A i \in 1 .. Len(future) :
          (FutureDone(i) /\ IsFailure(runOf[i])) =>
              future[i] = [ip |-> ip_list[i], text |-> FailureText(runOf[i])]

\* a step leaves every other lookup as it was: a result once there stays,
\* and a lookup in flight stays in flight unless it is the one that returned
SiblingsUntouched ==
    /\ \A j \in 1 .. Len(future) : FutureDone(j) => future'[j] = future[j]
    /\ Cardinality(running \ running') <= 1
    /\ started' >= started

\* C6: a timeout, a resolver error or a missing record becomes the result of
\* its address; it never aborts the run nor changes another lookup; and a
\* run whose pool started reaches the output stage with a result for every
\* address.
C6_FailuresRecorded ==
    /\ []FailuresAreResults
    /\ [][SiblingsUntouched]_vars
    /\ (pc = "submit") ~> (pc = "done" /\ Len(results) = N)

\* a finished run in which a timeout, an error and a missing record are three
\* addresses' results
C6_Witness ==
    /\ pc = "done"
    /\ N = 3
    /\ \E i, j, k \in 1 .. N :
          /\ results[i].text = TimeoutText
          /\ results[j].text = ErrorText(runOf[j].desc) /\ runOf[j].kind = "exception"
          /\ results[k].text = NoPtrText

\* -------------------------------------------------------------- C8 (no input)
\* C8: once the sources are combined into an empty list, the run is over:
\* no pool, no lookup, no output file.
C8_EmptyListStops ==
    (pc # "collect_ips" /\ ip_list = <<>>) =>
        /\ pc \in {"done", "crashed"}
        /\ submitted = 0 /\ started = 0 /\ numThreads = 0 /\ future = <<>>
        /\ console = <<>>
        /\ ~outFile.written

\* a run over a file whose only entry is invalid, with an output path, ended
\* with nothing looked up or written
C8_Witness ==
    /\ pc = "done"
    /\ ip_list = <<>>
    /\ args.output
    /\ args.file # <<>> /\ args.file[1] # <<>>
    /\ args.subnet = <<>> /\ args.cidr = <<>>
    /\ ~outFile.written

\* ============================================================ mroute.main
DnsServer == "172.20.11.2"
SearchDomain == "example.com"
RouteSet == {"172.20.11.0/24", "172.20.12.0/24"}
Gateway == "172.20.10.1"
ServiceName == "Wi-Fi"
InterfaceArg == "en0"

RouteArgSets == [r : BOOLEAN, s : BOOLEAN, b : BOOLEAN, i : BOOLEAN,
                 p : {<<>>, <<InterfaceArg>>}]
\* what parse_config_file returns
Configs == [dns : {<<>>, <<DnsServer>>}, domains : {<<>>, <<SearchDomain>>},
            routes : SeqsUpTo(RouteSet, MaxRoutes), gateway : {"", Gateway}]

\* how subprocess.run(command, check=True) ends: exit status 0, a non-zero
\* exit status (CalledProcessError), or the command cannot be started
\* (OSError, which run_command does not catch)
CommandOutcomes == {"ok", "nonzero", "oserror"}

RouteInit ==
    /\ rArgs \in RouteArgSets
    /\ config \in Configs
    /\ configExists \in BOOLEAN
    /\ rpc = "main"
    /\ services = <<>> /\ interface = "" /\ routeIdx = 1
    /\ cmdLog = <<>> /\ exitStatus = 0 /\ backupFile = <<>>
    /\ FileIdle
    /\ LookupIdle
    /\ PipeIdle

\* (a run_command that prints the error and returns)
run_command_no_exit(command, outcome, next) ==
    /\ cmdLog' = Append(cmdLog, [command |-> command, outcome |-> outcome])
    /\ rpc' = next
    /\ exitStatus' = exitStatus

\* mroute.run_command: the command runs; CalledProcessError prints the error
\* and calls sys.exit(1); any other exception ends the process with a
\* traceback and status 1.  `next` is where the caller continues.
run_command(command, outcome, next) ==
    /\ cmdLog' = Append(cmdLog, [command |-> command, outcome |-> outcome])
    /\ rpc' = IF outcome = "ok" THEN next ELSE "exit"
    /\ exitStatus' = IF outcome = "ok" THEN exitStatus ELSE 1

\* lines 134-141: parse the arguments; -i first, else the interface
RouteMain ==
    /\ rpc = "main"
    /\ rpc' = IF rArgs.i THEN "create_default"
              ELSE IF rArgs.p = <<>> THEN "list_services"
              ELSE "dispatch"
    /\ interface' = IF ~rArgs.i /\ rArgs.p # <<>> THEN rArgs.p[1] ELSE interface
    /\ UNCHANGED <<rArgs, config, configExists, services, routeIdx, cmdLog,
                   exitStatus, backupFile, fileVars, lookupVars, pipeVars>>

\* create_default_config_file, then sys.exit(0)
CreateDefaultConfigFile ==
    /\ rpc = "create_default"
    /\ rpc' = "exit"
    /\ exitStatus' = IF configExists THEN 1 ELSE 0
    /\ configExists' = TRUE
    /\ UNCHANGED <<rArgs, config, services, interface, routeIdx, cmdLog,
                   backupFile, fileVars, lookupVars, pipeVars>>

\* list_network_services: the lines after the header
ListNetworkServices ==
    /\ rpc = "list_services"
    /\ \E outcome \in CommandOutcomes, out \in {<<>>, <<ServiceName>>} :
          /\ run_command(<<"networksetup", "-listallnetworkservices">>, outcome, "select")
          /\ services' = IF outcome = "ok" THEN out ELSE services
    /\ UNCHANGED <<rArgs, config, configExists, interface, routeIdx, backupFile,
                   fileVars, lookupVars, pipeVars>>

\* select_network_service: one round of the input loop
SelectNetworkService ==
    /\ rpc = "select"
    /\ \E choice \in 0 .. (Len(services) + 1) :
          IF 1 <= choice /\ choice <= Len(services)
          THEN /\ interface' = services[choice]
               /\ rpc' = "dispatch"
          ELSE UNCHANGED <<interface, rpc>>
    /\ UNCHANGED <<rArgs, config, configExists, services, routeIdx, cmdLog,
                   exitStatus, backupFile, fileVars, lookupVars, pipeVars>>

\* lines 143-152
Dispatch ==
    /\ rpc = "dispatch"
    /\ rpc' = IF rArgs.r THEN "reset_dns"
              ELSE IF rArgs.b THEN "backup_dns"
              ELSE IF rArgs.s THEN "parse_config"
              ELSE "exit"
    /\ UNCHANGED <<rArgs, config, configExists, services, interface, routeIdx,
                   cmdLog, exitStatus, backupFile, fileVars, lookupVars, pipeVars>>

\* reset_configuration, line 111
ResetDns ==
    /\ rpc = "reset_dns"
    /\ \E outcome \in CommandOutcomes :
          run_command(<<"sudo", "networksetup", "-setdnsservers", interface, "Empty">>,
                      outcome, "reset_domains")
    /\ UNCHANGED <<rArgs, config, configExists, services, interface, routeIdx,
                   backupFile, fileVars, lookupVars, pipeVars>>

\* reset_configuration, lines 112-113
ResetDomains ==
    /\ rpc = "reset_domains"
    /\ \E outcome \in CommandOutcomes :
          run_command(<<"sudo", "networksetup", "-setsearchdomains", interface, "Empty">>,
                      outcome, "exit")
    /\ UNCHANGED <<rArgs, config, configExists, services, interface, routeIdx,
                   backupFile, fileVars, lookupVars, pipeVars>>

\* backup_configuration, lines 117-119
BackupDns ==
    /\ rpc = "backup_dns"
    /\ \E outcome \in CommandOutcomes :
          /\ run_command(<<"networksetup", "-getdnsservers", interface>>,
                         outcome, "backup_domains")
          /\ backupFile' = IF outcome = "ok" THEN <<"DNS">> ELSE <<>>
    /\ UNCHANGED <<rArgs, config, configExists, services, interface, routeIdx,
                   fileVars, lookupVars, pipeVars>>

\* backup_configuration, lines 120-124
BackupDomains ==
    /\ rpc = "backup_domains"
    /\ \E outcome \in CommandOutcomes :
          /\ run_command(<<"networksetup", "-getsearchdomains", interface>>,
                         outcome, "exit")
          /\ backupFile' = IF outcome = "ok"
                           THEN backupFile \o <<"DOMAIN", "ROUTES", "GATEWAY">>
                           ELSE backupFile
    /\ UNCHANGED <<rArgs, config, configExists, services, interface, routeIdx,
                   fileVars, lookupVars, pipeVars>>

\* parse_config_file: sys.exit(1) when the file does not exist
ParseConfigFile ==
    /\ rpc = "parse_config"
    /\ rpc' = IF configExists THEN "set_dns" ELSE "exit"
    /\ exitStatus' = IF configExists THEN exitStatus ELSE 1
    /\ UNCHANGED <<rArgs, config, configExists, services, interface, routeIdx,
                   cmdLog, backupFile, fileVars, lookupVars, pipeVars>>

\* set_configuration, lines 93-96
SetDns ==
    /\ rpc = "set_dns"
    /\ IF config.dns # <<>>
       THEN \E outcome \in CommandOutcomes :
              run_command(<<"sudo", "networksetup", "-setdnsservers", interface>>
                             \o config.dns, outcome, "set_domains")
       ELSE rpc' = "set_domains" /\ UNCHANGED <<cmdLog, exitStatus>>
    /\ UNCHANGED <<rArgs, config, configExists, services, interface, routeIdx,
                   backupFile, fileVars, lookupVars, pipeVars>>

\* set_configuration, lines 97-100
SetDomains ==
    /\ rpc = "set_domains"
    /\ IF config.domains # <<>>
       THEN \E outcome \in CommandOutcomes :
              run_command(<<"sudo", "networksetup", "-setsearchdomains", interface>>
                             \o config.domains, outcome, "set_routes")
       ELSE rpc' = "set_routes" /\ UNCHANGED <<cmdLog, exitStatus>>
    /\ UNCHANGED <<rArgs, config, configExists, services, interface, routeIdx,
                   backupFile, fileVars, lookupVars, pipeVars>>

\* set_configuration, lines 101-107: one route of the loop, or its end, or
\* the skip when there is no route or no gateway
SetRoutes ==
    /\ rpc = "set_routes"
    /\ IF config.routes # <<>> /\ config.gateway # "" /\ routeIdx <= Len(config.routes)
       THEN /\ \E outcome \in CommandOutcomes :
                 run_command(<<"sudo", "route", "add", config.routes[routeIdx],
                               config.gateway>>, outcome, "set_routes")
            /\ routeIdx' = routeIdx + 1
       ELSE rpc' = "exit" /\ UNCHANGED <<cmdLog, exitStatus, routeIdx>>
    /\ UNCHANGED <<rArgs, config, configExists, services, interface,
                   backupFile, fileVars, lookupVars, pipeVars>>

RouteNext ==
    \/ RouteMain
    \/ CreateDefaultConfigFile
    \/ ListNetworkServices
    \/ SelectNetworkService
    \/ Dispatch
    \/ ResetDns
    \/ ResetDomains
    \/ BackupDns
    \/ BackupDomains
    \/ ParseConfigFile
    \/ SetDns
    \/ SetDomains
    \/ SetRoutes

SpecRoute == RouteInit /\ [][RouteNext]_vars

\* ------------------------------------------------- C10 (fatal command failure)
\* the commands an operation issues when none fails, in order
ListPlan == IF rArgs.p = <<>> THEN << <<"networksetup", "-listallnetworkservices">> >>
            ELSE <<>>
ResetPlan ==
    << <<"sudo", "networksetup", "-setdnsservers", interface, "Empty">>,
       <<"sudo", "networksetup", "-setsearchdomains", interface, "Empty">> >>
BackupPlan ==
    << <<"networksetup", "-getdnsservers", interface>>,
       <<"networksetup", "-getsearchdomains", interface>> >>
SetPlan ==
    (IF config.dns = <<>> THEN <<>>
     ELSE << <<"sudo", "networksetup", "-setdnsservers", interface>> \o config.dns >>)
    \o (IF config.domains = <<>> THEN <<>>
        ELSE << <<"sudo", "networksetup", "-setsearchdomains", interface>>
                  \o config.domains >>)
    \o (IF config.routes = <<>> \/ config.gateway = "" THEN <<>>
        ELSE [k \in 1 .. Len(config.routes) |->
                <<"sudo", "route", "add", config.routes[k], config.gateway>>])
Plan ==
    IF rArgs.i THEN <<>>
    ELSE ListPlan \o (IF rArgs.r THEN ResetPlan
                      ELSE IF rArgs.b THEN BackupPlan
                      ELSE IF rArgs.s /\ configExists THEN SetPlan
                      ELSE <<>>)

\* the interface is known once the commands after the listing are issued
CommandsFollowPlan ==
    /\ Len(cmdLog) <= Len(Plan)
    /\ \A k \in 1 .. Len(cmdLog) : cmdLog[k].command = Plan[k]

\* C10: a failed external command is the last one the process runs, and the
\* process has then ended with a non-zero status; the commands run are a
\* prefix of the operation's commands in their order (no retry, no command
\* undoing an earlier one); a run that ends with status 0 ran them all.
C10_CommandFailureFatal ==
    /\ \A k \in 1 .. Len(cmdLog) :
          cmdLog[k].outcome # "ok" =>
              /\ k = Len(cmdLog)
              /\ rpc = "exit"
              /\ exitStatus # 0
    /\ CommandsFollowPlan
    /\ (rpc = "exit" /\ exitStatus = 0) => Len(cmdLog) = Len(Plan)

\* set_configuration applied DNS, search domains and a first route, and the
\* second route-add failed
C10_Witness ==
    /\ rpc = "exit"
    /\ exitStatus = 1
    /\ rArgs.s /\ ~rArgs.r /\ ~rArgs.b /\ ~rArgs.i /\ rArgs.p # <<>>
    /\ Len(cmdLog) = 4
    /\ cmdLog[3].outcome = "ok"
    /\ cmdLog[4] = [command |-> <<"sudo", "route", "add", config.routes[2], Gateway>>,
                    outcome |-> "nonzero"]

====
